---- MODULE Spec2Model ----
(***************************************************************************)
(* The triage pipeline of the AI Triage plugin:                            *)
(*   RateLimitedWatcher  (src/src/file-watcher.ts)                         *)
(*   TriageQueue         (src/src/triage-queue.ts)                         *)
(*   parseTriageResponse (src/src/prompts/tolling-triage-prompt.ts)        *)
(*   AITriagePlugin      (src/src/main.ts): settings and plugin data       *)
(*                                                                         *)
(* The runtime is a single-threaded event loop.  One action of the model   *)
(* is one run-to-completion stretch of code: an event handler or a timer   *)
(* callback up to its first pending await, or the continuation of an async *)
(* function from the completion of the operation it awaits up to its next  *)
(* pending await.  An await of an already finished operation (an async     *)
(* function without a pending operation inside) does not end the stretch.  *)
(*                                                                         *)
(* Time is a discrete clock `now` (the value of Date.now()).  A timeout    *)
(* set with delay d at time t fires at t + d; the clock does not pass a    *)
(* timeout that is due.  The clock is only moved while a timed timeout is  *)
(* live: nothing in the code observes the time otherwise.                  *)
(***************************************************************************)
EXTENDS Integers, Sequences, FiniteSets, Bags, TLC

\* ------------------------------------------------------------------------
\* Bounds of the model
\* ------------------------------------------------------------------------

\* Number of vault events (create / modify) the environment delivers to the
\* whole pipeline.
MaxEvents == 2

\* Number of vault events delivered to the debouncer taken alone.
MaxBurst == 4

\* Number of items a run of the store operations creates.
MaxItems == 3

\* settings.debounceDelayMs, in clock units.
DebounceDelay == 2

\* settings.teamsBatchDelayMinutes * 60 * 1000, in clock units.
BatchDelay == 3

\* settings.maxConcurrentTriages (2 in DEFAULT_SETTINGS).
MaxConcurrent == 1

\* Number of executeScan calls made.
MaxScans == 2

\* The largest confidence of a response text, in tenths.
MaxConfidenceStep == 11

\* Number of saveSettings calls made.
MaxSettingsSaves == 2

\* Number of times the plugin is unloaded and loaded again.
MaxRestarts == 1

\* Number of TriageQueue calls that are inside save() at a time.
MaxInFlight == 2

\* Number of change listeners registered at a time.
MaxListeners == 2

\* Number of items the calls of the store with its persistence create.
MaxSavedItems == 2

\* ------------------------------------------------------------------------
\* Files.  A path is the tuple of the parts the code looks at: its folder
\* prefix, then the file name; the name of a Teams message is split in the
\* conversation id (the match of /^(19_[^-]+)/) and the rest.
\* ------------------------------------------------------------------------

EmailA == <<"Emails/", "a.md">>
Teams1 == <<"TeamsChats/", "19_c1", "-1.md">>
Teams2 == <<"TeamsChats/", "19_c1", "-2.md">>
NoteN == <<"Notes/", "n.md">>

Paths == {EmailA, Teams1, Teams2, NoteN}

\* settings.watchedFolders (DEFAULT_SETTINGS).
watchedFolders == {"Emails/", "TeamsChats/", "Calendar/"}

\* A watched file last modified before the scan's cutoff time.
OldE == <<"Emails/", "old.md">>

\* vault.getMarkdownFiles(): the files a manual scan goes through.
ScanFiles == <<NoteN, OldE, EmailA, Teams1, Teams2>>

\* file.stat.mtime < cutoffTime
tooOld(p) == p = OldE

\* file.path.startsWith(folder) for some watched folder.
isWatchedFile(p) == \E folder \in watchedFolders : p[1] = folder

\* file.path.startsWith('TeamsChats/')
isTeamsMessage(p) == p[1] = "TeamsChats/"

\* The conversation id of a Teams message path.
extractConversationId(p) == p[2]

Convs == {extractConversationId(p) : p \in {q \in Paths : isTeamsMessage(q)}}

\* ------------------------------------------------------------------------
\* Suggestions and the classifier
\* ------------------------------------------------------------------------

\* Three of the ten categories: an actionable one, and the two the code
\* treats specially.
Categories == {"SYSTEM_ISSUE", "INFORMATIONAL", "UNCLEAR"}

\* Confidence is held in percent.
Suggestion(cat, conf) == [category |-> cat, confidence |-> conf]

\* triageContent's null.
NullSuggestion == [category |-> "null", confidence |-> -1]

\* What ollama.generate() can end with: a rejection (timeout, HTTP error), or
\* a response text, described by what parseTriageResponse looks at: whether
\* it holds JSON, whether the JSON passes the schema, and the fields.
GenerateResults ==
    { [kind |-> "timeout",   json |-> FALSE, valid |-> FALSE, category |-> "null", confidence |-> -1],
      [kind |-> "httpError", json |-> FALSE, valid |-> FALSE, category |-> "null", confidence |-> -1],
      [kind |-> "response",  json |-> FALSE, valid |-> FALSE, category |-> "null", confidence |-> -1],
      [kind |-> "response",  json |-> TRUE,  valid |-> FALSE, category |-> "SYSTEM_ISSUE", confidence |-> -1],
      [kind |-> "response",  json |-> TRUE,  valid |-> TRUE,  category |-> "SYSTEM_ISSUE", confidence |-> 90],
      [kind |-> "response",  json |-> TRUE,  valid |-> TRUE,  category |-> "INFORMATIONAL", confidence |-> 90] }

isValidCategory(c) == c \in Categories

\* parseTriageResponse: unparsable text gives UNCLEAR with confidence 0; JSON
\* that fails the schema is salvaged with confidence 0.3; valid JSON is
\* passed on.
parseTriageResponse(r) ==
    IF ~r.json
    THEN Suggestion("UNCLEAR", 0)
    ELSE IF ~r.valid
         THEN Suggestion(IF isValidCategory(r.category) THEN r.category ELSE "UNCLEAR", 30)
         ELSE Suggestion(r.category, r.confidence)

\* No parseTriageResponse call was made.
NoParse ==
    [response |-> [kind |-> "none", json |-> FALSE, valid |-> FALSE,
                   category |-> "null", confidence |-> -1],
     result |-> NullSuggestion]

\* TriageResponseSchema.safeParse(parsed).success, for an object with a title
\* the schema accepts and no optional field: the category is one of the
\* enumeration, and confidence is a number from 0 to 1 (absent: -1).
safeParse(category, confidence) ==
    isValidCategory(category) /\ confidence \in 0..100

\* triageContent: the parsed suggestion, or null when anything in it throws
\* (the classifier call rejects).
triageContent(r) ==
    IF r.kind # "response" THEN NullSuggestion ELSE parseTriageResponse(r)

\* A test that lets every suggestion pass.
isActionableWithoutFilter(suggestion) == suggestion # NullSuggestion

\* The test of triageFile and triageTeamsConversation before addItem:
\* suggestion && suggestion.category !== 'INFORMATIONAL'.
isActionable(suggestion) ==
    suggestion # NullSuggestion /\ suggestion.category # "INFORMATIONAL"

\* Whether a generate() result is a failure of the classification: a
\* rejection, or a response that is not a valid suggestion.
ClassifyFailed(r) == r.kind # "response" \/ ~r.json \/ ~r.valid

\* ------------------------------------------------------------------------
\* State
\* ------------------------------------------------------------------------

VARIABLES
    now,             \* Date.now()
    \* RateLimitedWatcher
    isWatching,
    debounceTimers,  \* Map path -> timeout handle; a handle is the due time
    timers,          \* the runtime's live debounce timeouts: {[path, due]}
    checkTimers,     \* the runtime's live quiet-check timeouts, oldest first: <<[conv, due]>>
    retryTimers,     \* number of live processQueue retry timeouts
    fileQueue,       \* sequence of files (QueuedFile.file)
    processing,
    activeTriages,
    teamsBuffer,     \* Map conversationId -> buffer object (index in buffers), 0: none
    buffers,         \* the TeamsConversationBuffer objects ever created
    enqueueing,      \* bag of enqueueFile calls awaiting isSensitiveFile
    triaging,        \* bag of triageFile calls: [file, pc, failure]
    convTriaging,    \* bag of checkTeamsBatch calls inside triageTeamsConversation
    \* TriageQueue
    items,           \* sequence of TriageItem
    nextId,          \* generateId: the next fresh id
    \* history
    nEvents,         \* vault events delivered so far
    lastCheck,       \* the latest isSensitiveFile call of enqueueFile: its file and its read
    pending,         \* per path: the burst of events awaiting its settled signal
    lastSettled,     \* the latest settled signal (enqueueFile call of a debounce timer)
    bufLog,          \* per buffer object: its dispatches and which members they covered
    failedUnits,     \* the finished units whose read or classification failed
    lastOp,          \* the latest TriageQueue call
    \* manual scan
    isScanning,
    scanAborted,
    scan,            \* the executeScan call inside previewScan, or NoScan
    scanLog,         \* history: executeScan calls made and how they ended
    \* dispatch queue history
    enqLog,          \* the files pushed on fileQueue, in order
    startLog,        \* the files whose triageFile call was started, in order
    \* TriageQueue persistence and listeners
    storeOps,        \* bag of TriageQueue calls inside save()
    data,            \* the plugin data document: its triageQueue entry
    listeners,       \* sequence of registered change listeners
    doneOp,          \* history: the latest TriageQueue call that returned
    \* parseTriageResponse taken alone
    lastParse,       \* history: the latest triageContent or parseTriageResponse call:
                     \* what generate() ended with, and what the call returned
    \* AITriagePlugin
    settings,        \* this.settings
    settingsOps,     \* bag of saveSettings calls awaiting saveData
    pluginLog        \* history: restarts made, and saveSettings calls that returned

timerVars == <<debounceTimers, timers>>
queueLog == <<enqLog, startLog>>
queueVars == <<fileQueue, processing, activeTriages, retryTimers, triaging, queueLog>>
scanVars == <<isScanning, scanAborted, scan, scanLog>>
persistVars == <<storeOps, data, listeners, doneOp>>
pluginVars == <<settings, settingsOps, pluginLog>>
teamsVars == <<teamsBuffer, buffers, checkTimers, convTriaging, bufLog>>
storeVars == <<items, nextId>>
debounceLog == <<pending, lastSettled>>

vars == <<now, isWatching, debounceTimers, timers, checkTimers, retryTimers,
          fileQueue, processing, activeTriages, teamsBuffer, buffers,
          enqueueing, triaging, convTriaging, items, nextId,
          nEvents, lastCheck, pending, lastSettled, bufLog, failedUnits, lastOp,
          isScanning, scanAborted, scan, scanLog, enqLog, startLog,
          storeOps, data, listeners, doneOp, lastParse,
          settings, settingsOps, pluginLog>>

NoTimer == -1

NoBurst == [since |-> -1, n |-> 0, cancelled |-> FALSE]
NoSettle == [path |-> <<>>, at |-> -1, since |-> -1, n |-> 0, cancelled |-> FALSE]
\* No executeScan call is inside previewScan.
NoScan == [idx |-> 0, filesToTriage |-> <<>>]

NoScanLog == [calls |-> 0, rejected |-> 0, returned |-> -1, failed |-> 0]

\* The plugin data document before any save: no triageQueue entry, and no
\* settings field (value stands for the settings fields of the document).
NoData == [present |-> FALSE, items |-> <<>>, value |-> "none"]

\* DEFAULT_SETTINGS: the settings fields, and no triageQueue key.
DEFAULT_SETTINGS == [value |-> "default", present |-> FALSE, items |-> <<>>]

NoPluginLog == [restarts |-> 0, loadOk |-> TRUE, settingsSaved |-> 0]

\* ------------------------------------------------------------------------
\* TriageQueue
\* ------------------------------------------------------------------------

Statuses == {"pending", "reviewed", "dismissed"}

\* A hasFilePath that counts items of every status.
hasFilePathInAnyStatus(its, p) ==
    \E i \in DOMAIN its : its[i].filePath = p

\* hasFilePath, over a collection.
hasFilePathIn(its, p) ==
    \E i \in DOMAIN its : its[i].filePath = p /\ its[i].status = "pending"

hasFilePath(p) == hasFilePathIn(items, p)

getPendingItems == SelectSeq(items, LAMBDA it : it.status = "pending")

getPendingCount == Len(SelectSeq(items, LAMBDA it : it.status = "pending"))

\* Number of pending items that reference path p.
PendingFor(its, p) ==
    Cardinality({i \in DOMAIN its : its[i].filePath = p /\ its[i].status = "pending"})

\* An optional field that is not set.
Undefined == "undefined"

NewItem(id, p, s) ==
    [id |-> id, filePath |-> p, suggestion |-> s, status |-> "pending",
     actionTaken |-> Undefined, createdTaskPath |-> Undefined]

\* addItem up to its await of save(): the item is built and pushed.
addItem(p, s) ==
    /\ items' = Append(items, NewItem(nextId, p, s))
    /\ nextId' = nextId + 1

\* A Partial<TriageItem>: a field that is not provided is undefined (for a
\* path <<>>, for a suggestion the null suggestion).
NoPath == <<>>

Partial(fp, sg, st, at, ctp) ==
    [filePath |-> fp, suggestion |-> sg, status |-> st, actionTaken |-> at,
     createdTaskPath |-> ctp]

\* Updates that provide no field.
NoUpdates == Partial(NoPath, NullSuggestion, Undefined, Undefined, Undefined)

NoOp ==
    [op |-> "none", id |-> 0, path |-> <<>>, hadPending |-> FALSE, result |-> "none",
     updates |-> NoUpdates, removed |-> 0]

\* An updatedItem that takes every field from the updates alone.
updatedItemWithoutMerge(existingItem, updates) ==
    [id |-> existingItem.id,
     filePath |-> updates.filePath,
     suggestion |-> updates.suggestion,
     status |-> updates.status,
     actionTaken |-> updates.actionTaken,
     createdTaskPath |-> updates.createdTaskPath]

\* a ?? b
Coalesce(a, b, none) == IF a = none THEN b ELSE a

\* this.items.findIndex(item => item.id === id), 0 for -1.
findIndex(id) ==
    IF \E i \in DOMAIN items : items[i].id = id
    THEN CHOOSE i \in DOMAIN items :
            items[i].id = id /\ \A j \in 1..(i - 1) : items[j].id # id
    ELSE 0

\* The item updateItem builds from the existing one and the updates.
updatedItem(existingItem, updates) ==
    [id |-> existingItem.id,
     filePath |-> Coalesce(updates.filePath, existingItem.filePath, NoPath),
     suggestion |-> Coalesce(updates.suggestion, existingItem.suggestion, NullSuggestion),
     status |-> Coalesce(updates.status, existingItem.status, Undefined),
     actionTaken |-> Coalesce(updates.actionTaken, existingItem.actionTaken, Undefined),
     createdTaskPath |-> Coalesce(updates.createdTaskPath, existingItem.createdTaskPath, Undefined)]

\* updateItem(id, updates) up to its await of save().
updateItem(id, updates) ==
    LET index == findIndex(id)
    IN IF index = 0
       THEN UNCHANGED items
       ELSE items' = [items EXCEPT ![index] = updatedItem(items[index], updates)]

\* markReviewed(id, action, taskPath)
markReviewed(id, action, taskPath) ==
    updateItem(id, Partial(NoPath, NullSuggestion, "reviewed", action, taskPath))

\* dismissItem(id)
dismissItem(id) ==
    updateItem(id, Partial(NoPath, NullSuggestion, "dismissed", "dismissed", Undefined))

\* removeItem(id) up to its await of save(): this.items.splice(index, 1).
removeItem(id) ==
    LET index == findIndex(id)
    IN IF index = 0
       THEN UNCHANGED items
       ELSE items' = SubSeq(items, 1, index - 1) \o SubSeq(items, index + 1, Len(items))

\* A clearProcessed() that filters out the dismissed items alone.
clearProcessedKeepsReviewed ==
    items' = SelectSeq(items, LAMBDA it : it.status # "dismissed")

\* clearProcessed(): the items that are pending are kept.
clearProcessed ==
    items' = SelectSeq(items, LAMBDA it : it.status = "pending")

\* clearProcessed(): const removed = beforeCount - this.items.length, the
\* value the call returns.
removed == Len(items) - Len(items')

\* ------------------------------------------------------------------------
\* TriageQueue: persistence and change listeners
\* ------------------------------------------------------------------------

\* The change listeners of the model: one that returns and one that throws.
Listeners == {"render", "faulty"}

throws(listener) == listener = "faulty"

\* on('change', listener)
on(listener) == listeners' = Append(listeners, listener)

\* this.listeners.indexOf(listener), 0 for -1.
indexOf(listener) ==
    IF \E i \in DOMAIN listeners : listeners[i] = listener
    THEN CHOOSE i \in DOMAIN listeners :
            listeners[i] = listener /\ \A j \in 1..(i - 1) : listeners[j] # listener
    ELSE 0

\* off('change', listener)
off(listener) ==
    LET index == indexOf(listener)
    IN IF index = 0
       THEN UNCHANGED listeners
       ELSE listeners' = SubSeq(listeners, 1, index - 1)
                         \o SubSeq(listeners, index + 1, Len(listeners))

\* A notifyListeners() without the try block around the call of a listener:
\* the first listener that throws ends the loop and the exception leaves.
RECURSIVE notifyWithoutCatch(_, _)
notifyWithoutCatch(ls, invoked) ==
    IF ls = <<>>
    THEN [invoked |-> invoked, outcome |-> "returned"]
    ELSE IF throws(Head(ls))
         THEN [invoked |-> Append(invoked, Head(ls)), outcome |-> "thrown"]
         ELSE notifyWithoutCatch(Tail(ls), Append(invoked, Head(ls)))

\* notifyListeners(), over the listeners ls: the listeners invoked, in order,
\* and how the function ends.  A listener that throws is caught and logged.
RECURSIVE notifyListeners(_, _)
notifyListeners(ls, invoked) ==
    IF ls = <<>>
    THEN [invoked |-> invoked, outcome |-> "returned"]
    ELSE notifyListeners(Tail(ls), Append(invoked, Head(ls)))

\* A save() that writes the pending items alone.
triageQueueDataPendingOnly ==
    [present |-> TRUE, items |-> SelectSeq(items, LAMBDA it : it.status = "pending")]

\* save(): data.triageQueue = { items: this.items, ... }, the entry handed to
\* saveData.
triageQueueData == [present |-> TRUE, items |-> items]

\* save(): the document loadData has returned (or {}), with its triageQueue
\* entry set: what is handed to saveData.
withTriageQueue(loaded, entry) ==
    [present |-> entry.present, items |-> entry.items, value |-> loaded.value]

\* A save() without its catch block.
saveRethrows(failed) == IF failed THEN "thrown" ELSE "returned"

\* How save() ends when loadData or saveData failed, or none did: the catch
\* block logs the error.
saveEnds(failed) == "returned"

\* A TriageQueue call that has mutated the collection and awaits loadData
\* inside save(); result is what it will return.
NewStoreOp(result) ==
    [result |-> result, pc |-> "load", snapshot |-> NoData, full |-> TRUE]

\* No TriageQueue call has returned yet.  returned is what a pending query
\* has returned: the count, the items, or whether path has a pending item.
NoDone ==
    [result |-> "none", saved |-> "none", notified |-> "none",
     threw |-> FALSE,
     returned |-> [count |-> -1, items |-> <<>>, has |-> FALSE, path |-> <<>>]]

\* A call returns without save() and notifyListeners(): nothing was changed.
doneUnchanged(result) ==
    [result |-> result, saved |-> "none", notified |-> "none",
     threw |-> FALSE, returned |-> NoDone.returned]

\* A call from the end of save() on: notifyListeners() and the return.  With
\* an exception out of save() or notifyListeners() the call is rejected.
\* saved tells what became of the persisted entry: "full" (the collection as
\* it was when saveData was called), "partial", or "failed"; notified
\* whether the listeners invoked are the registered ones, each once ("all"),
\* or not ("some"); threw whether a registered listener throws.
doneSaved(t, failed) ==
    IF saveEnds(failed) = "thrown"
    THEN [result |-> "rejected", saved |-> "failed",
          notified |-> IF listeners = <<>> THEN "all" ELSE "some",
          threw |-> \E i \in DOMAIN listeners : throws(listeners[i]),
          returned |-> NoDone.returned]
    ELSE LET n == notifyListeners(listeners, <<>>)
         IN [result |-> IF n.outcome = "thrown" THEN "rejected" ELSE t.result,
             saved |-> IF failed THEN "failed" ELSE IF t.full THEN "full" ELSE "partial",
             notified |-> IF n.invoked = listeners THEN "all" ELSE "some",
             threw |-> \E i \in DOMAIN listeners : throws(listeners[i]),
             returned |-> NoDone.returned]

\* ------------------------------------------------------------------------
\* AITriagePlugin: the settings, and the start of the plugin
\* ------------------------------------------------------------------------

\* The fields of a TriageItem that are optional.
OptionalFields == {"actionTaken", "createdTaskPath"}

\* JSON.stringify of an item, inside saveData: a key whose value is undefined
\* is left out.
stringify(item) ==
    [k \in DOMAIN item \ {f \in OptionalFields : item[f] = Undefined} |-> item[k]]

\* JSON.parse of an item, inside loadData, as the code reads it afterwards: a
\* key that is not there reads undefined.
parse(text) ==
    [k \in DOMAIN text \cup OptionalFields |->
        IF k \in DOMAIN text THEN text[k] ELSE Undefined]

\* What loadData returns of the items that saveData was handed.
loadedItems(its) == [i \in DOMAIN its |-> parse(stringify(its[i]))]

\* TriageQueue.load() on a store that was just constructed (items = []):
\* the items of the document's triageQueue entry if there is one; with an
\* exception out of loadData, [].
load(ok) ==
    items' = IF ok /\ data.present THEN loadedItems(data.items) ELSE <<>>

\* loadSettings(): Object.assign({}, DEFAULT_SETTINGS, await this.loadData()).
\* Every key of the document is copied, its triageQueue entry too.
loadSettings ==
    settings' = [value |-> IF data.value = "none" THEN DEFAULT_SETTINGS.value ELSE data.value,
                 present |-> data.present,
                 items |-> loadedItems(data.items)]

\* saveSettings() up to its await: this.saveData(this.settings) is called.
saveSettings(current) ==
    settingsOps' = settingsOps (+) SetToBag({current})

\* ------------------------------------------------------------------------
\* RateLimitedWatcher: lifecycle and debouncing
\* ------------------------------------------------------------------------

\* start()
start ==
    IF isWatching THEN UNCHANGED isWatching ELSE isWatching' = TRUE

\* A stop() that empties the map and clears no timeout.
stopWithoutClearTimeout ==
    /\ isWatching' = FALSE
    /\ timers' = timers
    /\ debounceTimers' = [p \in Paths |-> NoTimer]

\* stop(): every timeout of the map is cleared, and the map emptied.
stop ==
    /\ isWatching' = FALSE
    /\ timers' = timers \ {[path |-> p, due |-> debounceTimers[p]] : p \in Paths}
    /\ debounceTimers' = [p \in Paths |-> NoTimer]

\* A handleFileChange(file) that keeps one timeout for the whole watcher.
handleFileChangeSharedTimer(p) ==
    IF ~isWatching \/ ~isWatchedFile(p)
    THEN UNCHANGED timerVars
    ELSE /\ timers' = {[path |-> p, due |-> now + DebounceDelay]}
         /\ debounceTimers' = [q \in Paths |->
                                 IF q = p THEN now + DebounceDelay ELSE NoTimer]

\* A handleFileChange(file) that leaves the path's existing timeout live.
handleFileChangeWithoutClear(p) ==
    IF ~isWatching \/ ~isWatchedFile(p)
    THEN UNCHANGED timerVars
    ELSE /\ timers' = timers \cup {[path |-> p, due |-> now + DebounceDelay]}
         /\ debounceTimers' = [debounceTimers EXCEPT ![p] = now + DebounceDelay]

\* handleFileChange(file)
handleFileChange(p) ==
    IF ~isWatching \/ ~isWatchedFile(p)
    THEN UNCHANGED timerVars
    ELSE LET existingTimer == debounceTimers[p]
             timer == now + DebounceDelay
             cleared == IF existingTimer # NoTimer
                        THEN timers \ {[path |-> p, due |-> existingTimer]}
                        ELSE timers
         IN /\ timers' = cleared \cup {[path |-> p, due |-> timer]}
            /\ debounceTimers' = [debounceTimers EXCEPT ![p] = timer]

\* enqueueFile(file) up to its await of isSensitiveFile.
enqueueFile(p) ==
    IF hasFilePath(p)
    THEN UNCHANGED enqueueing
    ELSE enqueueing' = enqueueing (+) SetToBag({p})

\* A timeout callback that leaves the path's entry in the map.
debounceCallbackWithoutDelete(p) ==
    /\ UNCHANGED debounceTimers
    /\ enqueueFile(p)

\* The callback handleFileChange hands to setTimeout: the path's entry is
\* deleted from the map and enqueueFile(file) called.
debounceCallback(p) ==
    /\ debounceTimers' = [debounceTimers EXCEPT ![p] = NoTimer]
    /\ enqueueFile(p)

\* What a vault.read can end with: content without or with an exclusion
\* marker (a sensitivePatterns entry, or a skipTaggedFiles tag in the
\* frontmatter), or an exception.  The content is what the file holds when
\* it is read: a file can be edited between two reads.
ReadResults == {"clean", "marked", "error"}

\* An isSensitiveFile(file) whose catch block returns true.
isSensitiveFileFailClosed(read) ==
    IF read = "error" THEN TRUE ELSE read = "marked"

\* isSensitiveFile(file), from what its vault.read ends with: an exception is
\* caught and false returned.
isSensitiveFile(read) ==
    IF read = "error" THEN FALSE ELSE read = "marked"

\* ------------------------------------------------------------------------
\* RateLimitedWatcher: the dispatch queue
\* ------------------------------------------------------------------------

\* A triageFile call; marked notes whether the content it read carries an
\* exclusion marker.
NewTriage(p) == [file |-> p, pc |-> "read", failure |-> "none", marked |-> FALSE]

\* A while loop that takes the newest entry of the queue (pop, not shift).
RECURSIVE DrainFromTail(_, _, _)
DrainFromTail(q, active, started) ==
    IF Len(q) > 0 /\ active < MaxConcurrent
    THEN DrainFromTail(SubSeq(q, 1, Len(q) - 1), active + 1, Append(started, q[Len(q)]))
    ELSE [queue |-> q, active |-> active, started |-> started]

\* The while loop of processQueue.
RECURSIVE Drain(_, _, _)
Drain(q, active, started) ==
    IF Len(q) > 0 /\ active < MaxConcurrent
    THEN Drain(Tail(q), active + 1, Append(started, Head(q)))
    ELSE [queue |-> q, active |-> active, started |-> started]

RECURSIVE StartAll(_, _)
StartAll(bag, started) ==
    IF started = <<>>
    THEN bag
    ELSE StartAll(bag (+) SetToBag({NewTriage(Head(started))}), Tail(started))

\* A processQueue() whose finally block schedules no retry.
processQueueWithoutRetry(q, r) ==
    LET d == Drain(q, activeTriages, <<>>)
    IN /\ fileQueue' = d.queue
       /\ activeTriages' = d.active
       /\ triaging' = StartAll(triaging, d.started)
       /\ processing' = FALSE
       /\ retryTimers' = r

\* A processQueue() whose finally block leaves the processing flag set.
processQueueKeepsProcessing(q, r) ==
    IF processing
    THEN /\ fileQueue' = q
         /\ retryTimers' = r
         /\ UNCHANGED <<processing, activeTriages, triaging>>
    ELSE LET d == Drain(q, activeTriages, <<>>)
         IN /\ fileQueue' = d.queue
            /\ activeTriages' = d.active
            /\ triaging' = StartAll(triaging, d.started)
            /\ processing' = TRUE
            /\ retryTimers' = IF Len(d.queue) > 0 THEN r + 1 ELSE r

\* processQueue(), called with fileQueue = q and r retry timeouts live.  The
\* function holds no await: it runs to its end in one stretch.
processQueue(q, r) ==
    IF processing
    THEN /\ fileQueue' = q
         /\ retryTimers' = r
         /\ UNCHANGED <<processing, activeTriages, triaging>>
    ELSE LET d == Drain(q, activeTriages, <<>>)
         IN /\ fileQueue' = d.queue
            /\ activeTriages' = d.active
            /\ triaging' = StartAll(triaging, d.started)
            /\ processing' = FALSE
            /\ retryTimers' = IF Len(d.queue) > 0 THEN r + 1 ELSE r

\* ------------------------------------------------------------------------
\* RateLimitedWatcher: manual scan
\* ------------------------------------------------------------------------

\* The loop of previewScan from file i on, up to the next file whose content
\* isSensitiveFile has to read: its index, or 0 when the loop ends.  A file
\* outside the watched folders, too old, or with a pending item is passed.
RECURSIVE nextCandidate(_)
nextCandidate(i) ==
    IF i > Len(ScanFiles)
    THEN 0
    ELSE IF \/ ~isWatchedFile(ScanFiles[i])
            \/ tooOld(ScanFiles[i])
            \/ hasFilePath(ScanFiles[i])
         THEN nextCandidate(i + 1)
         ELSE i

\* The files the loop of executeScan pushes: it breaks at once when the scan
\* was aborted.
scanPushed(filesToTriage) == IF scanAborted THEN <<>> ELSE filesToTriage

\* executeScan: return preview.filesToTriage.length
scanReturns(filesToTriage) == Len(filesToTriage)

\* executeScan from the return of previewScan on: the files are pushed,
\* processQueue is called, and the finally block resets the flags.
finishScan(filesToTriage) ==
    /\ processQueue(fileQueue \o scanPushed(filesToTriage), retryTimers)
    /\ isScanning' = FALSE
    /\ scanAborted' = FALSE
    /\ scan' = NoScan

\* executeScan(), on a watcher that is not scanning, up to the first
\* isSensitiveFile of previewScan.
executeScan ==
    LET i == nextCandidate(1)
    IN IF i = 0
       THEN finishScan(<<>>)
       ELSE /\ isScanning' = TRUE
            /\ scanAborted' = FALSE
            /\ scan' = [idx |-> i, filesToTriage |-> <<>>]
            /\ UNCHANGED <<fileQueue, processing, activeTriages, retryTimers, triaging>>

\* previewScan from the end of an isSensitiveFile on, and executeScan after it.
scanStep(read) ==
    LET file == ScanFiles[scan.idx]
        filesToTriage == IF isSensitiveFile(read)
                         THEN scan.filesToTriage
                         ELSE Append(scan.filesToTriage, file)
        i == nextCandidate(scan.idx + 1)
    IN IF i = 0
       THEN finishScan(filesToTriage)
       ELSE /\ scan' = [idx |-> i, filesToTriage |-> filesToTriage]
            /\ UNCHANGED <<isScanning, scanAborted, fileQueue, processing,
                           activeTriages, retryTimers, triaging>>

\* cancelScan()
cancelScan ==
    IF isScanning THEN scanAborted' = TRUE ELSE UNCHANGED scanAborted

\* ------------------------------------------------------------------------
\* RateLimitedWatcher: Teams conversation batching
\* ------------------------------------------------------------------------

NewBuffer(conv) == [files |-> <<>>, lastUpdate |-> now, conversationId |-> conv]

\* bufferTeamsMessage(file).  indexToSimpleMem holds no pending operation.
bufferTeamsMessage(p) ==
    LET conversationId == extractConversationId(p)
        existing == teamsBuffer[conversationId]
        b == IF existing = 0 THEN Len(buffers) + 1 ELSE existing
        objs == IF existing = 0 THEN Append(buffers, NewBuffer(conversationId)) ELSE buffers
    IN /\ teamsBuffer' = [teamsBuffer EXCEPT ![conversationId] = b]
       /\ buffers' = [objs EXCEPT ![b].files = Append(@, p), ![b].lastUpdate = now]
       /\ checkTimers' = Append(checkTimers, [conv |-> conversationId, due |-> now + BatchDelay])

\* A quiet test that every buffer passes.
quietPeriodAlwaysPassed(buffer) == now >= buffer.lastUpdate

\* The quiet test of checkTeamsBatch.
quietPeriodPassed(buffer) == now - buffer.lastUpdate >= BatchDelay

NewConvTriage(conv, b) ==
    [conv |-> conv, buf |-> b, idx |-> 1, pc |-> "read", failure |-> "none",
     marked |-> FALSE]

\* checkTeamsBatch(conversationId) up to its first pending await: nothing
\* without a buffer or before the quiet period has passed; otherwise
\* triageTeamsConversation(buffer.files, conversationId) is entered, which
\* awaits the read of the first file (with no file it returns, and the
\* buffer is deleted).
checkTeamsBatch(conversationId) ==
    LET b == teamsBuffer[conversationId]
    IN IF b = 0
       THEN UNCHANGED <<teamsBuffer, convTriaging>>
       ELSE IF ~quietPeriodPassed(buffers[b])
            THEN UNCHANGED <<teamsBuffer, convTriaging>>
            ELSE IF Len(buffers[b].files) = 0
                 THEN /\ teamsBuffer' = [teamsBuffer EXCEPT ![conversationId] = 0]
                      /\ UNCHANGED convTriaging
                 ELSE /\ convTriaging' = convTriaging (+) SetToBag({NewConvTriage(conversationId, b)})
                      /\ UNCHANGED teamsBuffer

\* Whether checkTeamsBatch(conversationId) dispatches in this state.
Dispatches(conversationId) ==
    /\ teamsBuffer[conversationId] # 0
    /\ quietPeriodPassed(buffers[teamsBuffer[conversationId]])

\* this.teamsBuffer.delete(conversationId), the end of checkTeamsBatch.
deleteBuffer(conversationId) ==
    teamsBuffer' = [teamsBuffer EXCEPT ![conversationId] = 0]

\* ------------------------------------------------------------------------
\* History of the run (read by no action)
\* ------------------------------------------------------------------------

\* The end of a unit (a file, or a conversation under its first file's path)
\* whose read or classification failed is noted.
LogFinish(unit, failure) ==
    failedUnits' = IF failure # "none" THEN failedUnits \cup {unit} ELSE failedUnits

\* A stretch that pushes the files `pushed` on fileQueue and calls
\* processQueue: the pushes and the triageFile calls started are noted.
LogQueue(pushed) ==
    /\ enqLog' = enqLog \o pushed
    /\ startLog' = startLog \o
          (IF processing
           THEN <<>>
           ELSE Drain(fileQueue \o pushed, activeTriages, <<>>).started)

NewBufLog == [dispatches |-> 0, gapOk |-> TRUE, covered |-> {}]

\* An append to a conversation's buffer: a new buffer object starts its log;
\* gapOk notes whether every append came less than BatchDelay after the one
\* before it.
LogAppend(p) ==
    LET existing == teamsBuffer[extractConversationId(p)]
    IN bufLog' = IF existing = 0
                 THEN Append(bufLog, NewBufLog)
                 ELSE [bufLog EXCEPT ![existing].gapOk =
                          @ /\ (now - buffers[existing].lastUpdate < BatchDelay)]

\* A dispatch of buffer object b: it covers the members the buffer holds.
LogDispatch(b) ==
    bufLog' = [bufLog EXCEPT ![b].dispatches = @ + 1,
                             ![b].covered = @ \cup DOMAIN buffers[b].files]

\* A dispatch in progress reads member i of buffer object b.
LogRead(b, i) ==
    bufLog' = [bufLog EXCEPT ![b].covered = @ \cup {i}]

\* ------------------------------------------------------------------------
\* Initial state: the objects after their constructors
\* ------------------------------------------------------------------------

Init ==
    /\ now = 0
    /\ isWatching = FALSE
    /\ debounceTimers = [p \in Paths |-> NoTimer]
    /\ timers = {}
    /\ checkTimers = <<>>
    /\ retryTimers = 0
    /\ fileQueue = <<>>
    /\ processing = FALSE
    /\ activeTriages = 0
    /\ teamsBuffer = [c \in Convs |-> 0]
    /\ buffers = <<>>
    /\ enqueueing = EmptyBag
    /\ triaging = EmptyBag
    /\ convTriaging = EmptyBag
    /\ items = <<>>
    /\ nextId = 1
    /\ nEvents = 0
    /\ lastCheck = [path |-> <<>>, read |-> "none"]
    /\ pending = [p \in Paths |-> NoBurst]
    /\ lastSettled = NoSettle
    /\ bufLog = <<>>
    /\ failedUnits = {}
    /\ lastOp = NoOp
    /\ isScanning = FALSE
    /\ scanAborted = FALSE
    /\ scan = NoScan
    /\ scanLog = NoScanLog
    /\ enqLog = <<>>
    /\ startLog = <<>>
    /\ storeOps = EmptyBag
    /\ data = NoData
    /\ listeners = <<>>
    /\ doneOp = NoDone
    /\ lastParse = NoParse
    /\ settings = DEFAULT_SETTINGS
    /\ settingsOps = EmptyBag
    /\ pluginLog = NoPluginLog

\* ------------------------------------------------------------------------
\* Actions of the watcher
\* ------------------------------------------------------------------------

\* start()
Start ==
    /\ start
    /\ UNCHANGED <<now, timerVars, queueVars, teamsVars, enqueueing, storeVars,
                   nEvents, lastCheck, debounceLog, failedUnits, lastOp, scanVars, persistVars, lastParse, pluginVars>>

\* stop().  The bursts whose timeout was live are noted as cancelled.
Stop ==
    /\ stop
    /\ pending' = [p \in Paths |->
                     IF pending[p].since >= 0
                     THEN [pending[p] EXCEPT !.cancelled = TRUE]
                     ELSE pending[p]]
    /\ UNCHANGED <<now, queueVars, teamsVars, enqueueing, storeVars,
                   nEvents, lastCheck, lastSettled, failedUnits, lastOp, scanVars, persistVars, lastParse, pluginVars>>

\* A vault 'create' or 'modify' event for file p: handleFileChange(p).  An
\* accepted event opens a burst on p or extends the one awaiting its signal.
VaultEvent(p) ==
    /\ nEvents' = nEvents + 1
    /\ handleFileChange(p)
    /\ pending' = IF isWatching /\ isWatchedFile(p)
                  THEN [pending EXCEPT ![p] =
                          [since |-> now,
                           n |-> IF @.since >= 0 /\ ~@.cancelled THEN @.n + 1 ELSE 1,
                           cancelled |-> FALSE]]
                  ELSE pending
    /\ UNCHANGED <<now, isWatching, queueVars, teamsVars, enqueueing, storeVars,
                   lastCheck, lastSettled, failedUnits, lastOp, scanVars, persistVars, lastParse, pluginVars>>

FileEvent(p) == nEvents < MaxEvents /\ VaultEvent(p)

\* The callback of a debounce timeout: the entry of the path is deleted and
\* enqueueFile(file) is called (the settled signal).
DebounceFire(t) ==
    /\ t \in timers
    /\ t.due = now
    /\ timers' = timers \ {t}
    /\ debounceCallback(t.path)
    /\ lastSettled' = [path |-> t.path, at |-> now, since |-> pending[t.path].since,
                       n |-> pending[t.path].n, cancelled |-> pending[t.path].cancelled]
    /\ pending' = [pending EXCEPT ![t.path] = NoBurst]
    /\ UNCHANGED <<now, isWatching, queueVars, teamsVars, storeVars,
                   nEvents, lastCheck, failedUnits, lastOp, scanVars, persistVars, lastParse, pluginVars>>

\* enqueueFile(p) from the end of isSensitiveFile on: a sensitive file is
\* skipped, a Teams message is buffered, any other file is queued and the
\* queue processed.
EnqueueContinue(p, read) ==
    /\ BagIn(p, enqueueing)
    /\ enqueueing' = enqueueing (-) SetToBag({p})
    /\ IF isSensitiveFile(read)
       THEN UNCHANGED <<queueVars, teamsVars>>
       ELSE IF isTeamsMessage(p)
            THEN /\ bufferTeamsMessage(p)
                 /\ LogAppend(p)
                 /\ UNCHANGED <<queueVars, convTriaging>>
            ELSE /\ processQueue(Append(fileQueue, p), retryTimers)
                 /\ LogQueue(<<p>>)
                 /\ UNCHANGED teamsVars
    /\ lastCheck' = [path |-> p, read |-> read]
    /\ UNCHANGED <<now, isWatching, timerVars, storeVars,
                   nEvents, debounceLog, failedUnits, lastOp, scanVars, persistVars, lastParse, pluginVars>>

\* The callback of a retry timeout of processQueue.
RetryFire ==
    /\ retryTimers > 0
    /\ processQueue(fileQueue, retryTimers - 1)
    /\ LogQueue(<<>>)
    /\ UNCHANGED <<now, isWatching, timerVars, teamsVars, enqueueing, storeVars,
                   nEvents, lastCheck, debounceLog, failedUnits, lastOp, scanVars, persistVars, lastParse, pluginVars>>

ReplaceIn(bag, old, new) == (bag (-) SetToBag({old})) (+) SetToBag({new})

\* An end of a triageFile call that leaves the counter as it is.
FinishTriageWithoutDecrement(t, failure) ==
    /\ triaging' = triaging (-) SetToBag({t})
    /\ LogFinish(t.file, failure)
    /\ UNCHANGED <<fileQueue, processing, activeTriages, retryTimers, queueLog>>

\* The end of a triageFile call: the finally handler of processQueue runs.
FinishTriage(t, failure) ==
    /\ triaging' = triaging (-) SetToBag({t})
    /\ activeTriages' = activeTriages - 1
    /\ LogFinish(t.file, failure)
    /\ UNCHANGED <<fileQueue, processing, retryTimers, queueLog>>

\* triageFile(file) from the end of vault.read on: with the content (what
\* the file holds at the time of this read), triageContent is entered; on an
\* exception the catch block adds an UNCLEAR item (addItem runs up to its
\* await of save()).
TriageRead(t, read) ==
    /\ BagIn(t, triaging)
    /\ t.pc = "read"
    /\ IF read # "error"
       THEN /\ triaging' = ReplaceIn(triaging, t,
                              [t EXCEPT !.pc = "classify", !.marked = (read = "marked")])
            /\ UNCHANGED storeVars
       ELSE /\ addItem(t.file, Suggestion("UNCLEAR", 0))
            /\ triaging' = ReplaceIn(triaging, t,
                              [t EXCEPT !.pc = "save", !.failure = "read"])
    /\ UNCHANGED <<now, isWatching, timerVars, fileQueue, processing, activeTriages,
                   retryTimers, queueLog, teamsVars, enqueueing,
                   nEvents, lastCheck, debounceLog, failedUnits, lastOp, scanVars, persistVars, lastParse, pluginVars>>

\* triageFile(file) from the end of triageContent on: r is what
\* ollama.generate ended with.  A suggestion other than INFORMATIONAL is
\* added; with null or INFORMATIONAL the call ends.
TriageClassify(t, r) ==
    /\ BagIn(t, triaging)
    /\ t.pc = "classify"
    /\ LET suggestion == triageContent(r)
           failure == IF ClassifyFailed(r) THEN "classify" ELSE "none"
       IN IF isActionable(suggestion)
          THEN /\ addItem(t.file, suggestion)
               /\ triaging' = ReplaceIn(triaging, t,
                                 [t EXCEPT !.pc = "save", !.failure = failure])
               /\ UNCHANGED <<fileQueue, processing, activeTriages, retryTimers, queueLog,
                              failedUnits>>
          ELSE /\ FinishTriage(t, failure)
               /\ UNCHANGED storeVars
    /\ lastParse' = [response |-> r, result |-> triageContent(r)]
    /\ UNCHANGED <<now, isWatching, timerVars, teamsVars, enqueueing,
                   nEvents, lastCheck, debounceLog, lastOp, scanVars, persistVars, pluginVars>>

\* addItem from the end of save() on, back in triageFile, to its end.
TriageSave(t) ==
    /\ BagIn(t, triaging)
    /\ t.pc = "save"
    /\ FinishTriage(t, t.failure)
    /\ UNCHANGED <<now, isWatching, timerVars, teamsVars, enqueueing, storeVars,
                   nEvents, lastCheck, debounceLog, lastOp, scanVars, persistVars, lastParse, pluginVars>>

\* ------------------------------------------------------------------------
\* Actions of the conversation batcher
\* ------------------------------------------------------------------------

\* The callback of the oldest quiet-check timeout: checkTeamsBatch(conv).
\* All quiet-checks have the same delay, so the oldest is the first due.
CheckFire ==
    /\ checkTimers # <<>>
    /\ Head(checkTimers).due = now
    /\ checkTimers' = Tail(checkTimers)
    /\ checkTeamsBatch(Head(checkTimers).conv)
    /\ IF Dispatches(Head(checkTimers).conv)
       THEN LogDispatch(teamsBuffer[Head(checkTimers).conv])
       ELSE UNCHANGED bufLog
    /\ UNCHANGED <<now, isWatching, timerVars, queueVars, buffers, enqueueing,
                   storeVars, nEvents, lastCheck, debounceLog, failedUnits, lastOp, scanVars, persistVars, lastParse, pluginVars>>

\* The end of a checkTeamsBatch call that dispatched: triageTeamsConversation
\* has returned and the conversation's entry is deleted from the map.
FinishConv(t, failure) ==
    /\ convTriaging' = convTriaging (-) SetToBag({t})
    /\ deleteBuffer(t.conv)
    /\ LogFinish(buffers[t.buf].files[1], failure)

\* triageTeamsConversation from the end of a vault.read on.  The loop runs
\* over the buffer's own files array: a member pushed meanwhile is read too.
\* After the last file triageContent is entered; an exception is caught and
\* logged, and the call returns.
ConvRead(t, read) ==
    /\ BagIn(t, convTriaging)
    /\ t.pc = "read"
    /\ IF read = "error"
       THEN /\ FinishConv(t, "read")
            /\ UNCHANGED bufLog
       ELSE LET u == [t EXCEPT !.marked = @ \/ (read = "marked")]
            IN IF t.idx < Len(buffers[t.buf].files)
               THEN /\ convTriaging' = ReplaceIn(convTriaging, t, [u EXCEPT !.idx = @ + 1])
                    /\ LogRead(t.buf, t.idx + 1)
                    /\ UNCHANGED <<teamsBuffer, failedUnits>>
               ELSE /\ convTriaging' = ReplaceIn(convTriaging, t, [u EXCEPT !.pc = "classify"])
                    /\ UNCHANGED <<teamsBuffer, failedUnits, bufLog>>
    /\ UNCHANGED <<now, isWatching, timerVars, queueVars, buffers, checkTimers,
                   enqueueing, storeVars, nEvents, lastCheck, debounceLog, lastOp, scanVars, persistVars, lastParse, pluginVars>>

\* triageTeamsConversation from the end of triageContent on: a suggestion
\* other than INFORMATIONAL is added under the first file's path; with null
\* or INFORMATIONAL the call returns.
ConvClassify(t, r) ==
    /\ BagIn(t, convTriaging)
    /\ t.pc = "classify"
    /\ LET suggestion == triageContent(r)
           failure == IF ClassifyFailed(r) THEN "classify" ELSE "none"
           firstFile == buffers[t.buf].files[1]
       IN IF isActionable(suggestion)
          THEN /\ addItem(firstFile, suggestion)
               /\ convTriaging' = ReplaceIn(convTriaging, t,
                                     [t EXCEPT !.pc = "save", !.failure = failure])
               /\ UNCHANGED <<teamsBuffer, failedUnits>>
          ELSE /\ FinishConv(t, failure)
               /\ UNCHANGED storeVars
    /\ lastParse' = [response |-> r, result |-> triageContent(r)]
    /\ UNCHANGED <<now, isWatching, timerVars, queueVars, buffers, checkTimers, bufLog,
                   enqueueing, nEvents, lastCheck, debounceLog, lastOp, scanVars, persistVars, pluginVars>>

\* addItem from the end of save() on, back in triageTeamsConversation, to
\* the end of checkTeamsBatch.
ConvSave(t) ==
    /\ BagIn(t, convTriaging)
    /\ t.pc = "save"
    /\ FinishConv(t, t.failure)
    /\ UNCHANGED <<now, isWatching, timerVars, queueVars, buffers, checkTimers, bufLog,
                   enqueueing, storeVars, nEvents, lastCheck, debounceLog, lastOp, scanVars, persistVars, lastParse, pluginVars>>

\* ------------------------------------------------------------------------
\* Time
\* ------------------------------------------------------------------------

TimedTimeoutLive == timers # {} \/ checkTimers # <<>>

NoTimeoutDue ==
    /\ \A t \in timers : t.due > now
    /\ \A i \in DOMAIN checkTimers : checkTimers[i].due > now

Tick ==
    /\ TimedTimeoutLive
    /\ NoTimeoutDue
    /\ now' = now + 1
    /\ UNCHANGED <<isWatching, timerVars, queueVars, teamsVars, enqueueing, storeVars,
                   nEvents, lastCheck, debounceLog, failedUnits, lastOp, scanVars, persistVars, lastParse, pluginVars>>

\* ------------------------------------------------------------------------
\* The pipeline
\* ------------------------------------------------------------------------

Next ==
    \/ Start
    \/ Stop
    \/ \E p \in Paths : FileEvent(p)
    \/ \E t \in timers : DebounceFire(t)
    \/ \E p \in Paths, read \in ReadResults : EnqueueContinue(p, read)
    \/ RetryFire
    \/ \E t \in BagToSet(triaging), read \in ReadResults : TriageRead(t, read)
    \/ \E t \in BagToSet(triaging), r \in GenerateResults : TriageClassify(t, r)
    \/ \E t \in BagToSet(triaging) : TriageSave(t)
    \/ CheckFire
    \/ \E t \in BagToSet(convTriaging), read \in ReadResults : ConvRead(t, read)
    \/ \E t \in BagToSet(convTriaging), r \in GenerateResults : ConvClassify(t, r)
    \/ \E t \in BagToSet(convTriaging) : ConvSave(t)
    \/ Tick

Spec == Init /\ [][Next]_vars

\* ------------------------------------------------------------------------
\* The manual scan and the dispatch queue taken alone: executeScan and
\* cancelScan calls on a watcher that was not started, and the triage calls
\* the queue starts.
\* ------------------------------------------------------------------------

scanIdle ==
    UNCHANGED <<now, isWatching, timerVars, teamsVars, enqueueing, storeVars,
                nEvents, lastCheck, debounceLog, failedUnits, lastOp, persistVars, lastParse, pluginVars>>

\* executeScan().  Called while a scan is in progress it throws 'Scan already
\* in progress': the call is rejected and nothing changes.
ExecuteScan ==
    /\ scanLog.calls < MaxScans
    /\ IF isScanning
       THEN /\ scanLog' = [scanLog EXCEPT !.calls = @ + 1, !.rejected = @ + 1]
            /\ UNCHANGED <<isScanning, scanAborted, scan, queueVars>>
       ELSE /\ executeScan
            /\ scanLog' = [scanLog EXCEPT
                              !.calls = @ + 1,
                              !.returned = IF nextCandidate(1) = 0
                                           THEN scanReturns(<<>>)
                                           ELSE @]
            /\ IF nextCandidate(1) = 0 THEN LogQueue(<<>>) ELSE UNCHANGED queueLog
    /\ scanIdle

\* The end of an isSensitiveFile call of previewScan.
ScanStep(read) ==
    /\ scan # NoScan
    /\ scanStep(read)
    /\ LET filesToTriage == IF isSensitiveFile(read)
                            THEN scan.filesToTriage
                            ELSE Append(scan.filesToTriage, ScanFiles[scan.idx])
       IN IF nextCandidate(scan.idx + 1) = 0
          THEN /\ LogQueue(scanPushed(filesToTriage))
               /\ scanLog' = [scanLog EXCEPT !.returned = scanReturns(filesToTriage)]
          ELSE UNCHANGED <<queueLog, scanLog>>
    /\ scanIdle

\* An end of executeScan by an exception that skips the finally block.
ScanFailsWithoutFinally ==
    /\ scan # NoScan
    /\ scan' = NoScan
    /\ UNCHANGED <<isScanning, scanAborted, queueVars>>
    /\ scanLog' = [scanLog EXCEPT !.failed = @ + 1]
    /\ scanIdle

\* A scan in progress ends with an exception raised inside previewScan, by
\* the vault or by a settings value: nothing is pushed, processQueue is not
\* called, the finally block of executeScan resets the flags, and the call
\* rejects.
ScanFails ==
    /\ scan # NoScan
    /\ isScanning' = FALSE
    /\ scanAborted' = FALSE
    /\ scan' = NoScan
    /\ scanLog' = [scanLog EXCEPT !.failed = @ + 1]
    /\ UNCHANGED queueVars
    /\ scanIdle

\* cancelScan()
CancelScan ==
    /\ cancelScan
    /\ UNCHANGED <<isScanning, scan, scanLog, queueVars>>
    /\ scanIdle

NextScan ==
    \/ ExecuteScan
    \/ \E read \in ReadResults : ScanStep(read)
    \/ ScanFails
    \/ CancelScan
    \/ RetryFire
    \/ \E t \in BagToSet(triaging), read \in ReadResults : TriageRead(t, read)
    \/ \E t \in BagToSet(triaging), r \in GenerateResults : TriageClassify(t, r)
    \/ \E t \in BagToSet(triaging) : TriageSave(t)

SpecScan == Init /\ [][NextScan]_vars

\* The same with the runtime's guarantees: a timeout that is set fires, and
\* a read, a classifier call or a save that was started ends.
SpecScanLive ==
    /\ SpecScan
    /\ WF_vars(RetryFire)
    /\ WF_vars(\E read \in ReadResults : ScanStep(read))
    /\ WF_vars(\E t \in BagToSet(triaging), read \in ReadResults : TriageRead(t, read))
    /\ WF_vars(\E t \in BagToSet(triaging), r \in GenerateResults : TriageClassify(t, r))
    /\ WF_vars(\E t \in BagToSet(triaging) : TriageSave(t))

\* ------------------------------------------------------------------------
\* The debouncer taken alone: the vault events, start() and stop(), the
\* debounce timeouts and the clock.  The enqueueFile calls the timeouts make
\* stay at their await.
\* ------------------------------------------------------------------------

BurstEvent(p) == nEvents < MaxBurst /\ VaultEvent(p)

NextDebounce ==
    \/ Start
    \/ Stop
    \/ \E p \in Paths : BurstEvent(p)
    \/ \E t \in timers : DebounceFire(t)
    \/ Tick

SpecDebounce == Init /\ [][NextDebounce]_vars

\* ------------------------------------------------------------------------
\* The store taken alone: calls of the TriageQueue operations in any order,
\* on a watcher that stays idle.  A call is taken up to its await of save():
\* what it does to the collection in memory.  What follows the await is in
\* the store with its persistence, further down.
\* ------------------------------------------------------------------------

StorePaths == {EmailA, Teams1}

StoreSuggestions == {Suggestion("SYSTEM_ISSUE", 90)}

\* The updates of the updateItem calls: a status alone, or nothing.
StoreUpdates ==
    {Partial(NoPath, NullSuggestion, st, Undefined, Undefined) :
        st \in Statuses \cup {Undefined}}

Ids == 1..MaxItems

SavedIds == 1..MaxSavedItems

Op(op, id, path, hadPending, result) ==
    [op |-> op, id |-> id, path |-> path, hadPending |-> hadPending, result |-> result,
     updates |-> NoUpdates, removed |-> 0]

\* A call that goes through updateItem, with the updates it passes.
UpdateOp(op, id, updates) ==
    [Op(op, id, NoPath, FALSE, IF findIndex(id) = 0 THEN "null" ELSE "item")
        EXCEPT !.updates = updates]

watcherIdle ==
    UNCHANGED <<now, isWatching, timerVars, queueVars, teamsVars, enqueueing,
                nEvents, lastCheck, debounceLog, failedUnits, scanVars>>

\* addItem(p, s); the call returns the item.
AddItem(p, s) ==
    /\ nextId <= MaxItems
    /\ addItem(p, s)
    /\ lastOp' = Op("addItem", nextId, p, hasFilePath(p),
                    IF Len(items') > Len(items) THEN "item" ELSE "rejected")
    /\ watcherIdle
    /\ UNCHANGED <<persistVars, lastParse, pluginVars>>

\* updateItem(id, updates); the call returns the item, or null.
UpdateItem(id, updates) ==
    /\ updateItem(id, updates)
    /\ lastOp' = UpdateOp("updateItem", id, updates)
    /\ UNCHANGED nextId
    /\ watcherIdle
    /\ UNCHANGED <<persistVars, lastParse, pluginVars>>

MarkReviewed(id, action, taskPath) ==
    /\ markReviewed(id, action, taskPath)
    /\ lastOp' = UpdateOp("markReviewed", id,
                          Partial(NoPath, NullSuggestion, "reviewed", action, taskPath))
    /\ UNCHANGED nextId
    /\ watcherIdle
    /\ UNCHANGED <<persistVars, lastParse, pluginVars>>

DismissItem(id) ==
    /\ dismissItem(id)
    /\ lastOp' = UpdateOp("dismissItem", id,
                          Partial(NoPath, NullSuggestion, "dismissed", "dismissed", Undefined))
    /\ UNCHANGED nextId
    /\ watcherIdle
    /\ UNCHANGED <<persistVars, lastParse, pluginVars>>

RemoveItem(id) ==
    /\ removeItem(id)
    /\ lastOp' = Op("removeItem", id, NoPath, FALSE,
                    IF findIndex(id) = 0 THEN "false" ELSE "true")
    /\ UNCHANGED nextId
    /\ watcherIdle
    /\ UNCHANGED <<persistVars, lastParse, pluginVars>>

ClearProcessed ==
    /\ clearProcessed
    /\ lastOp' = [Op("clearProcessed", 0, NoPath, FALSE, "count") EXCEPT !.removed = removed]
    /\ UNCHANGED nextId
    /\ watcherIdle
    /\ UNCHANGED <<persistVars, lastParse, pluginVars>>

NextStore ==
    \/ \E p \in StorePaths, s \in StoreSuggestions : AddItem(p, s)
    \/ \E id \in Ids, u \in StoreUpdates : UpdateItem(id, u)
    \/ \E id \in Ids, taskPath \in {Undefined, "Tasks/t.md"} :
          MarkReviewed(id, "created_task", taskPath)
    \/ \E id \in Ids : DismissItem(id)
    \/ \E id \in Ids : RemoveItem(id)
    \/ ClearProcessed

SpecStore == Init /\ [][NextStore]_vars

\* ------------------------------------------------------------------------
\* The store with its persistence and its listeners: calls of the
\* TriageQueue operations, each running to its await inside save(); the ends
\* of loadData and saveData, in any order and with or without an error; and
\* on / off calls.
\* ------------------------------------------------------------------------

persistIdle ==
    UNCHANGED <<now, isWatching, timerVars, queueVars, teamsVars, enqueueing,
                nEvents, lastCheck, debounceLog, failedUnits, scanVars, lastOp, lastParse, pluginVars>>

\* The call has changed the collection and awaits loadData inside save().
awaitsSave(result) ==
    /\ BagCardinality(storeOps) < MaxInFlight
    /\ storeOps' = storeOps (+) SetToBag({NewStoreOp(result)})
    /\ UNCHANGED doneOp

\* An early return that goes through save() and notifyListeners().
returnsAtOnceThroughSave(result) == awaitsSave(result)

\* The call returns before save().
returnsAtOnce(result) ==
    /\ doneOp' = doneUnchanged(result)
    /\ UNCHANGED storeOps

AddItemCall(p, s) ==
    /\ nextId <= MaxSavedItems
    /\ addItem(p, s)
    /\ awaitsSave("item")
    /\ UNCHANGED <<data, listeners>>
    /\ persistIdle

\* updateItem(id, updates)
UpdateItemCall(id, updates) ==
    /\ updateItem(id, updates)
    /\ IF findIndex(id) = 0
       THEN returnsAtOnce("null")
       ELSE awaitsSave("item")
    /\ UNCHANGED <<nextId, data, listeners>>
    /\ persistIdle

RemoveItemCall(id) ==
    /\ removeItem(id)
    /\ IF findIndex(id) = 0
       THEN returnsAtOnce("false")
       ELSE awaitsSave("true")
    /\ UNCHANGED <<nextId, data, listeners>>
    /\ persistIdle

\* clearProcessed(): save() and notifyListeners() only if removed > 0.
ClearProcessedCall ==
    /\ clearProcessed
    /\ IF Len(items') < Len(items)
       THEN awaitsSave("count")
       ELSE returnsAtOnce("count")
    /\ UNCHANGED <<nextId, data, listeners>>
    /\ persistIdle

\* save() from the end of loadData on: with the document, the triageQueue
\* entry is set and saveData called; on an exception save() ends, and the
\* call that awaited it goes on to its end.
SaveLoaded(t, ok) ==
    /\ BagIn(t, storeOps)
    /\ t.pc = "load"
    /\ IF ok
       THEN /\ storeOps' = ReplaceIn(storeOps, t,
                              [t EXCEPT !.pc = "write",
                                        !.snapshot = withTriageQueue(data, triageQueueData),
                                        !.full = (triageQueueData.items = items)])
            /\ UNCHANGED doneOp
       ELSE /\ storeOps' = storeOps (-) SetToBag({t})
            /\ doneOp' = doneSaved(t, TRUE)
    /\ UNCHANGED <<storeVars, data, listeners>>
    /\ persistIdle

\* A call that, once saveData has ended, puts back the collection as it was
\* when the call handed it to saveData.
SaveWrittenRestores(t, ok) ==
    /\ BagIn(t, storeOps)
    /\ t.pc = "write"
    /\ storeOps' = storeOps (-) SetToBag({t})
    /\ data' = IF ok THEN t.snapshot ELSE data
    /\ items' = t.snapshot.items
    /\ doneOp' = doneSaved(t, ~ok)
    /\ UNCHANGED <<nextId, listeners>>
    /\ persistIdle

\* save() from the end of saveData on, and the call that awaited it to its
\* end.  A write that ends without error has stored the document.
SaveWritten(t, ok) ==
    /\ BagIn(t, storeOps)
    /\ t.pc = "write"
    /\ storeOps' = storeOps (-) SetToBag({t})
    /\ data' = IF ok THEN t.snapshot ELSE data
    /\ doneOp' = doneSaved(t, ~ok)
    /\ UNCHANGED <<storeVars, listeners>>
    /\ persistIdle

\* on('change', listener)
On(listener) ==
    /\ Len(listeners) < MaxListeners
    /\ on(listener)
    /\ UNCHANGED <<storeVars, storeOps, data, doneOp>>
    /\ persistIdle

\* off('change', listener)
Off(listener) ==
    /\ off(listener)
    /\ UNCHANGED <<storeVars, storeOps, data, doneOp>>
    /\ persistIdle

\* getPendingItems(): the call returns without save() and notifyListeners().
GetPendingItemsCall ==
    /\ doneOp' = [doneUnchanged("getPendingItems") EXCEPT
                     !.returned = [NoDone.returned EXCEPT !.items = getPendingItems]]
    /\ UNCHANGED <<storeVars, storeOps, data, listeners>>
    /\ persistIdle

\* getPendingCount()
GetPendingCountCall ==
    /\ doneOp' = [doneUnchanged("getPendingCount") EXCEPT
                     !.returned = [NoDone.returned EXCEPT !.count = getPendingCount]]
    /\ UNCHANGED <<storeVars, storeOps, data, listeners>>
    /\ persistIdle

\* hasFilePath(p)
HasFilePathCall(p) ==
    /\ doneOp' = [doneUnchanged("hasFilePath") EXCEPT
                     !.returned = [NoDone.returned EXCEPT !.has = hasFilePath(p), !.path = p]]
    /\ UNCHANGED <<storeVars, storeOps, data, listeners>>
    /\ persistIdle

\* markReviewed(id, action, taskPath)
MarkReviewedCall(id, action, taskPath) ==
    UpdateItemCall(id, Partial(NoPath, NullSuggestion, "reviewed", action, taskPath))

\* dismissItem(id)
DismissItemCall(id) ==
    UpdateItemCall(id, Partial(NoPath, NullSuggestion, "dismissed", "dismissed", Undefined))

NextPersist ==
    \/ AddItemCall(EmailA, Suggestion("SYSTEM_ISSUE", 90))
    \/ \E id \in SavedIds : UpdateItemCall(id, NoUpdates)
    \/ \E id \in SavedIds : MarkReviewedCall(id, "created_task", Undefined)
    \/ \E id \in SavedIds : DismissItemCall(id)
    \/ \E id \in SavedIds : RemoveItemCall(id)
    \/ ClearProcessedCall
    \/ \E t \in BagToSet(storeOps), ok \in BOOLEAN : SaveLoaded(t, ok)
    \/ \E t \in BagToSet(storeOps), ok \in BOOLEAN : SaveWritten(t, ok)
    \/ \E listener \in Listeners : On(listener)
    \/ \E listener \in Listeners : Off(listener)

SpecPersist == Init /\ [][NextPersist]_vars

\* The pending queries, among store calls that add items for two paths and
\* take them to reviewed or dismissed, with listeners registered; loadData
\* and saveData end without error here.
NextQueries ==
    \/ \E p \in StorePaths : AddItemCall(p, Suggestion("SYSTEM_ISSUE", 90))
    \/ \E id \in SavedIds : MarkReviewedCall(id, "created_task", Undefined)
    \/ \E id \in SavedIds : DismissItemCall(id)
    \/ GetPendingItemsCall
    \/ GetPendingCountCall
    \/ \E p \in StorePaths : HasFilePathCall(p)
    \/ \E t \in BagToSet(storeOps) : SaveLoaded(t, TRUE)
    \/ \E t \in BagToSet(storeOps) : SaveWritten(t, TRUE)
    \/ On("render")

SpecQueries == Init /\ [][NextQueries]_vars

\* ------------------------------------------------------------------------
\* The plugin data document, shared by the store and the settings: store
\* calls, changes of a setting in the settings tab, the ends of loadData and
\* saveData in any order, and restarts of the plugin.  loadData and saveData
\* end without error here (what a failure does is in the store with its
\* persistence, above), except the loadData of TriageQueue.load.
\* ------------------------------------------------------------------------

SettingValues == {"default", "changed"}

\* The onChange handler of a setting: the field is set and saveSettings()
\* awaited.
ChangeSetting(value) ==
    /\ pluginLog.settingsSaved + BagCardinality(settingsOps) < MaxSettingsSaves
    /\ value # settings.value
    /\ settings' = [settings EXCEPT !.value = value]
    /\ saveSettings(settings')
    /\ UNCHANGED <<storeVars, persistVars, pluginLog>>
    /\ UNCHANGED <<now, isWatching, timerVars, queueVars, teamsVars, enqueueing,
                   nEvents, lastCheck, debounceLog, failedUnits, scanVars, lastOp,
                   lastParse>>

\* saveSettings() from the end of saveData on: the document is the settings
\* object that was handed to saveData.
SettingsWritten(t) ==
    /\ BagIn(t, settingsOps)
    /\ settingsOps' = settingsOps (-) SetToBag({t})
    /\ data' = t
    /\ pluginLog' = [pluginLog EXCEPT !.settingsSaved = @ + 1]
    /\ UNCHANGED <<storeVars, storeOps, listeners, doneOp, settings>>
    /\ UNCHANGED <<now, isWatching, timerVars, queueVars, teamsVars, enqueueing,
                   nEvents, lastCheck, debounceLog, failedUnits, scanVars, lastOp,
                   lastParse>>

\* The plugin is unloaded at a moment when no call is outstanding, and loaded
\* again: onload() awaits loadSettings(), constructs a TriageQueue and awaits
\* its load().  The views register their listeners anew.
Restart(ok) ==
    /\ pluginLog.restarts < MaxRestarts
    /\ storeOps = EmptyBag
    /\ settingsOps = EmptyBag
    /\ loadSettings
    /\ load(ok)
    /\ listeners' = <<>>
    /\ pluginLog' = [pluginLog EXCEPT !.restarts = @ + 1, !.loadOk = ok]
    /\ UNCHANGED <<nextId, storeOps, data, doneOp, settingsOps>>
    /\ UNCHANGED <<now, isWatching, timerVars, queueVars, teamsVars, enqueueing,
                   nEvents, lastCheck, debounceLog, failedUnits, scanVars, lastOp,
                   lastParse>>

NextPlugin ==
    \/ AddItemCall(EmailA, Suggestion("SYSTEM_ISSUE", 90))
    \/ \E id \in SavedIds : DismissItemCall(id)
    \/ \E id \in SavedIds : RemoveItemCall(id)
    \/ \E t \in BagToSet(storeOps) : SaveLoaded(t, TRUE)
    \/ \E t \in BagToSet(storeOps) : SaveWritten(t, TRUE)
    \/ \E value \in SettingValues : ChangeSetting(value)
    \/ \E t \in BagToSet(settingsOps) : SettingsWritten(t)
    \/ \E ok \in BOOLEAN : Restart(ok)

SpecPlugin == Init /\ [][NextPlugin]_vars

\* ------------------------------------------------------------------------
\* parseTriageResponse taken alone: calls with response texts of every shape.
\* ------------------------------------------------------------------------

\* The confidence a response gives, in percent: none (-1), or a number up to
\* MaxConfidenceStep tenths (above 10 tenths the schema rejects it).
ParseConfidences == {-1} \cup {10 * k : k \in 0..MaxConfidenceStep}

\* The category a response gives: one of the enumeration, a string that is
\* not in it, or none.
ParseCategories == Categories \cup {"BOGUS", "null"}

\* The response texts: without JSON, or with a JSON object that has a title
\* the schema accepts, and the category and confidence given.
Responses ==
    {[kind |-> "response", json |-> j, valid |-> j /\ safeParse(c, cf),
      category |-> c, confidence |-> cf] :
        j \in BOOLEAN, c \in ParseCategories, cf \in ParseConfidences}

\* parseTriageResponse(response)
ParseResponse(r) ==
    /\ lastParse' = [response |-> r, result |-> parseTriageResponse(r)]
    /\ UNCHANGED <<now, isWatching, timerVars, queueVars, teamsVars, enqueueing,
                   storeVars, nEvents, lastCheck, debounceLog, failedUnits, lastOp,
                   scanVars, persistVars, pluginVars>>

NextParse == \E r \in Responses : ParseResponse(r)

SpecParse == Init /\ [][NextParse]_vars

\* ------------------------------------------------------------------------
\* Properties
\* ------------------------------------------------------------------------

\* No timeout is live and no call is in flight: the pipeline has come to rest.
Quiescent ==
    /\ timers = {}
    /\ checkTimers = <<>>
    /\ retryTimers = 0
    /\ fileQueue = <<>>
    /\ enqueueing = EmptyBag
    /\ triaging = EmptyBag
    /\ convTriaging = EmptyBag

\* The calls of a bag that are inside triageContent, awaiting ollama.generate.
RECURSIVE Classifying(_, _)
Classifying(bag, ts) ==
    IF ts = {}
    THEN 0
    ELSE LET t == CHOOSE x \in ts : TRUE
         IN (IF t.pc = "classify" THEN CopiesIn(t, bag) ELSE 0)
            + Classifying(bag, ts \ {t})

\* C1: in every reachable state of the pipeline the store holds at most one
\* item with status pending for any given source path.
C1_OnePendingPerPath ==
    \A p \in Paths : PendingFor(items, p) <= 1

\* C2: every dispatched unit (a file, or a conversation) whose read or
\* classification failed has an item with category UNCLEAR and confidence 0
\* in the store; no failed unit is dropped.
C2_FailedUnitHasUnclearItem ==
    \A u \in failedUnits :
        \E i \in DOMAIN items :
            /\ items[i].filePath = u
            /\ items[i].suggestion = Suggestion("UNCLEAR", 0)

\* C3: at every instant the number of classifier calls outstanding, of files
\* and of conversations together, is at most maxConcurrentTriages.
C3_ConcurrencyCap ==
    Classifying(triaging, BagToSet(triaging))
    + Classifying(convTriaging, BagToSet(convTriaging)) <= MaxConcurrent

\* C4: a conversation whose members were appended less than the batch delay
\* apart (also at the same instant) is never dispatched twice, and once the
\* pipeline is at rest it has been dispatched exactly once, with all its
\* members.
C4_DispatchedExactlyOnce ==
    \A b \in DOMAIN bufLog :
        bufLog[b].gapOk =>
            /\ bufLog[b].dispatches <= 1
            /\ Quiescent =>
                  /\ bufLog[b].dispatches = 1
                  /\ bufLog[b].covered = DOMAIN buffers[b].files

\* C5: no conversation member is lost: once appends have stopped and the
\* pipeline is at rest, every file appended to a conversation buffer has been
\* part of a dispatched unit, also one appended while a dispatch of the
\* conversation was awaiting its classification.
C5_NoMemberLost ==
    Quiescent =>
        \A b \in DOMAIN bufLog : bufLog[b].covered = DOMAIN buffers[b].files

\* C6: a burst of N >= 1 events on a watched path, each less than the
\* debounce delay after the one before, gets exactly one settled signal, the
\* debounce delay after its last event: every signal emitted belongs to a
\* burst and comes the delay after that burst's last event, and a burst that
\* awaits its signal has exactly one live timeout, due the delay after its
\* last event.
C6_OneSettledSignalPerBurst ==
    /\ lastSettled # NoSettle =>
          /\ lastSettled.n >= 1
          /\ lastSettled.at = lastSettled.since + DebounceDelay
    /\ \A p \in Paths :
          IF pending[p].since >= 0 /\ ~pending[p].cancelled
          THEN /\ now <= pending[p].since + DebounceDelay
               /\ \A t \in {x \in timers : x.path = p} :
                     t.due = pending[p].since + DebounceDelay
               /\ \E t \in timers : t.path = p
          ELSE \A t \in timers : t.path # p

\* A burst of three events on one path has got its settled signal.
C6_Witness ==
    /\ lastSettled # NoSettle
    /\ lastSettled.n >= 3
    /\ \A p \in Paths : pending[p] = NoBurst

\* C7: status transitions are monotonic: no step of the store takes an item
\* that is reviewed or dismissed back to pending.
C7_StatusMonotonic ==
    [][\A i \in DOMAIN items :
          items[i].status \in {"reviewed", "dismissed"} =>
             \A j \in DOMAIN items' :
                items'[j].id = items[i].id => items'[j].status # "pending"]_vars

\* C8: addItem called for a path that a pending item already references is
\* rejected: no second item is created and exactly one pending item
\* references the path afterwards.
C8_AddItemRejectsDuplicate ==
    (lastOp.op = "addItem" /\ lastOp.hadPending) =>
        /\ lastOp.result = "rejected"
        /\ PendingFor(items, lastOp.path) = 1

\* C9: stop() cancels every live debounce timer: while the watcher is stopped
\* the timer map is empty and no debounce timeout is live (none survives
\* stop(), and an event that arrives while stopped schedules none), and no
\* settled signal is emitted for a burst that stop() cancelled.
C9_StopCancelsDebounceTimers ==
    /\ ~isWatching =>
          /\ timers = {}
          /\ \A p \in Paths : debounceTimers[p] = NoTimer
    /\ lastSettled # NoSettle => ~lastSettled.cancelled

\* stop() has cancelled a burst of two events whose timeout was live, and a
\* further event has been delivered without the burst growing.
C9_Witness ==
    /\ ~isWatching
    /\ \E p \in Paths :
          /\ pending[p].cancelled
          /\ pending[p].n = 2
          /\ now < pending[p].since + DebounceDelay
          /\ nEvents = MaxBurst
          /\ \A q \in Paths \ {p} : pending[q] = NoBurst
    /\ lastSettled = NoSettle

\* C10: stop() cancels every scheduled quiet-check: while the watcher is
\* stopped no conversation buffer is dispatched.
C10_NoDispatchAfterStop ==
    [][~isWatching =>
          \A b \in DOMAIN bufLog : bufLog'[b].dispatches = bufLog[b].dispatches]_vars

\* C11: after stop() draining is refused: while the watcher is stopped no
\* unit that is in the dispatch queue is taken from it and started; the queue
\* a step finds is still the front of the queue it leaves.
C11_NoDrainAfterStop ==
    [][~isWatching =>
          /\ Len(fileQueue') >= Len(fileQueue)
          /\ SubSeq(fileQueue', 1, Len(fileQueue)) = fileQueue]_vars

\* C14: no content that carries an exclusion marker when it is read for
\* classification (of a file or of a conversation) is sent to the classifier.
C14_MarkedContentNeverClassified ==
    \A t \in BagToSet(triaging) \cup BagToSet(convTriaging) :
        t.pc = "classify" => ~t.marked

\* C12: the dispatch queue starts work in FIFO order: the files pushed, in
\* the order of their pushes, are the files started, in the order of their
\* starts, followed by the files still queued; so a file pushed before
\* another is started no later than it.
C12_FifoStart ==
    enqLog = startLog \o fileQueue

\* Two different files pushed by one scan have both been started, and a
\* third is still queued.
C12_Witness ==
    /\ Len(startLog) >= 2
    /\ startLog[1] # startLog[2]
    /\ fileQueue # <<>>

\* C13: every enqueued unit is eventually started: when classifications end,
\* their slots are freed and draining resumes, so from any state with queued
\* or running units the queue becomes empty and the in-flight count 0.
C13_QueueEventuallyDrains ==
    (fileQueue # <<>> \/ activeTriages > 0) ~> (fileQueue = <<>> /\ activeTriages = 0)

\* A burst of three files, more than the cap, has been pushed at once and
\* all of them have been started and have ended.
C13_Witness ==
    /\ Len(enqLog) >= 3
    /\ startLog = enqLog
    /\ fileQueue = <<>>
    /\ activeTriages = 0
    /\ retryTimers = 0

\* C19: no call of a public entry point throws or rejects, also when it is
\* made while another call is in progress.  (executeScan holds the only throw
\* statement of the entry points that is outside a try block.)
C19_NoEntryPointRejects ==
    scanLog.rejected = 0

\* The value a field has after an update that provides v for it (nothing
\* when v is none).
Merged(v, old, none) == IF v # none THEN v ELSE old

\* C15: updateItem (also when called by markReviewed or dismissItem) changes
\* exactly the provided fields of the item with the id: a field that is not
\* provided keeps its value, the id is unchanged, and every other item and the
\* order of the collection are unchanged.
C15_UpdateItemFrame ==
    [][lastOp'.op \in {"updateItem", "markReviewed", "dismissItem"} =>
          /\ Len(items') = Len(items)
          /\ \A i \in DOMAIN items :
                IF items[i].id = lastOp'.id
                THEN /\ items'[i].id = items[i].id
                     /\ items'[i].filePath =
                           Merged(lastOp'.updates.filePath, items[i].filePath, NoPath)
                     /\ items'[i].suggestion =
                           Merged(lastOp'.updates.suggestion, items[i].suggestion, NullSuggestion)
                     /\ items'[i].status =
                           Merged(lastOp'.updates.status, items[i].status, Undefined)
                     /\ items'[i].actionTaken =
                           Merged(lastOp'.updates.actionTaken, items[i].actionTaken, Undefined)
                     /\ items'[i].createdTaskPath =
                           Merged(lastOp'.updates.createdTaskPath, items[i].createdTaskPath, Undefined)
                ELSE items'[i] = items[i]]_vars

\* updateItem has set the status alone of the second of three items, an item
\* that markReviewed had given an action and a task path: both are kept.
C15_Witness ==
    /\ lastOp.op = "updateItem"
    /\ lastOp.updates.status = "dismissed"
    /\ Len(items) = 3
    /\ items[2].id = lastOp.id
    /\ items[2].status = "dismissed"
    /\ items[2].actionTaken = "created_task"
    /\ items[2].createdTaskPath = "Tasks/t.md"

\* C20: an item is destroyed only by the purge of the items that are not
\* pending: no step of the store removes an item whose status is pending.
C20_PendingNeverRemoved ==
    [][\A i \in DOMAIN items :
          items[i].status = "pending" =>
             \E j \in DOMAIN items' : items'[j].id = items[i].id]_vars

\* C21: the queue persists across restarts: once the save of a mutating
\* operation has completed without error (every save() has, and no call is
\* outstanding when the plugin is unloaded), load() on the fresh store of the
\* restarted plugin, reading the plugin data without error, yields the items
\* of the store, in the same order, with the same statuses and fields.
C21_QueueSurvivesRestart ==
    [][(/\ pluginLog'.restarts > pluginLog.restarts
        /\ pluginLog'.loadOk
        /\ doneOp.saved = "full")
       => items' = items]_vars

\* C22: reviewed and dismissed are terminal: markReviewed and dismissItem on
\* the id of an item that is no longer pending leave its status as it is.
C22_ReviewedDismissedTerminal ==
    [][lastOp'.op \in {"markReviewed", "dismissItem"} =>
          \A i \in DOMAIN items :
             (items[i].id = lastOp'.id /\ items[i].status # "pending") =>
                /\ i \in DOMAIN items'
                /\ items'[i].status = items[i].status]_vars

\* C23: clearProcessed removes exactly the items that are not pending and
\* returns how many it removed; every pending item is kept, unchanged and in
\* its original relative order.
C23_ClearProcessedExact ==
    [][lastOp'.op = "clearProcessed" =>
          /\ \A j \in DOMAIN items' : items'[j].status = "pending"
          /\ Len(items') =
                Cardinality({i \in DOMAIN items : items[i].status = "pending"})
          /\ \E f \in [DOMAIN items' -> DOMAIN items] :
                /\ \A j, k \in DOMAIN items' : j < k => f[j] < f[k]
                /\ \A j \in DOMAIN items' : items'[j] = items[f[j]]
          /\ lastOp'.removed =
                Cardinality({i \in DOMAIN items : items[i].status # "pending"})]_vars

\* clearProcessed has removed a reviewed and a dismissed item and kept the
\* pending one that stood between them.
C23_Witness ==
    /\ lastOp.op = "clearProcessed"
    /\ lastOp.removed = 2
    /\ Len(items) = 1
    /\ items[1].id = 2
    /\ items[1].status = "pending"

\* C24: a conversation buffer is dispatched only in a state where
\* now - lastUpdate >= the batch delay, and a quiet-check that fires while the
\* conversation's buffer is not yet quiet leaves the buffer, its member list
\* and the map unchanged and dispatches nothing.
C24_DispatchOnlyWhenQuiet ==
    [][/\ \A b \in DOMAIN bufLog :
             bufLog'[b].dispatches > bufLog[b].dispatches =>
                now - buffers[b].lastUpdate >= BatchDelay
       /\ (/\ checkTimers # <<>>
           /\ checkTimers' = Tail(checkTimers)
           /\ teamsBuffer[Head(checkTimers).conv] # 0
           /\ now - buffers[teamsBuffer[Head(checkTimers).conv]].lastUpdate < BatchDelay)
          => /\ UNCHANGED <<teamsBuffer, buffers, convTriaging>>
             /\ \A b \in DOMAIN bufLog : bufLog'[b].dispatches = bufLog[b].dispatches]_vars

\* Two messages of a conversation came at different times; the quiet-check of
\* the first has fired before the buffer was quiet and has dispatched nothing:
\* the buffer holds both members and awaits the second check.
C24_Witness ==
    /\ Len(buffers) = 1
    /\ Len(buffers[1].files) = 2
    /\ \E c \in Convs : teamsBuffer[c] = 1
    /\ Len(checkTimers) = 1
    /\ bufLog[1].dispatches = 0
    /\ convTriaging = EmptyBag
    /\ now < buffers[1].lastUpdate + BatchDelay

\* C25: in every reachable state a source path has at most one live debounce
\* timeout, and the timer map holds an entry for a path exactly while that
\* path's timeout is live: the entry is the handle of the live timeout.
C25_OneLiveTimerPerPath ==
    \A p \in Paths :
       /\ Cardinality({t \in timers : t.path = p}) <= 1
       /\ debounceTimers[p] # NoTimer <=> \E t \in timers : t.path = p
       /\ \A t \in timers : t.path = p => debounceTimers[p] = t.due

\* Two paths have a live timeout each, one of them re-armed by a third event
\* on its path, after an earlier timeout has fired and its entry was deleted.
C25_Witness ==
    /\ lastSettled # NoSettle
    /\ debounceTimers[lastSettled.path] = NoTimer
    /\ \E p, q \in Paths :
          /\ p # q
          /\ pending[p].n >= 2
          /\ debounceTimers[p] = pending[p].since + DebounceDelay
          /\ debounceTimers[q] # NoTimer
          /\ debounceTimers[q] # debounceTimers[p]
    /\ Cardinality(timers) = 2

\* C26: the sensitivity filter fails open: when the read of a file's content
\* raises an exception, isSensitiveFile returns false and enqueueFile goes on
\* with the file: a Teams message is appended to its conversation's buffer,
\* any other file is pushed on the dispatch queue.
C26_FilterFailsOpen ==
    [][(BagCardinality(enqueueing') < BagCardinality(enqueueing)
        /\ lastCheck'.read = "error")
       => IF isTeamsMessage(lastCheck'.path)
          THEN LET conv == extractConversationId(lastCheck'.path)
                   b == teamsBuffer'[conv]
               IN /\ b # 0
                  /\ buffers'[b].files =
                        Append(IF teamsBuffer[conv] = 0 THEN <<>> ELSE buffers[b].files,
                               lastCheck'.path)
          ELSE enqLog' = Append(enqLog, lastCheck'.path)]_vars

\* The read of an e-mail by isSensitiveFile has raised an exception, and the
\* e-mail was pushed on the dispatch queue and its triage started.
C26_Witness ==
    /\ lastCheck = [path |-> EmailA, read |-> "error"]
    /\ enqLog = <<EmailA>>
    /\ startLog = <<EmailA>>
    /\ enqueueing = EmptyBag

\* C28: executeScan returns the number of files it queued: when a call
\* returns, the value it returns is the number of entries it has appended to
\* the dispatch queue, also for a scan that cancelScan has aborted.
C28_ScanReturnsQueuedCount ==
    [][(/\ scanLog'.failed = scanLog.failed
        /\ \/ isScanning /\ ~isScanning'
           \/ scanLog'.calls > scanLog.calls /\ ~isScanning /\ ~isScanning')
       => scanLog'.returned = Len(enqLog') - Len(enqLog)]_vars

\* C29: parseTriageResponse sets a default confidence: for a response whose
\* JSON has a valid category and title and no confidence field, the
\* suggestion returned keeps the category and has confidence 0.5.
C29_DefaultConfidence ==
    (/\ lastParse.response.kind = "response"
     /\ lastParse.response.json
     /\ isValidCategory(lastParse.response.category)
     /\ lastParse.response.confidence = -1)
    => /\ lastParse.result.category = lastParse.response.category
       /\ lastParse.result.confidence = 50

\* C27: no lost update in the collection in memory, whatever the interleaving
\* of the outstanding store calls: a call reads and changes the collection in
\* one step, the one that registers it as outstanding, and a step in which an
\* outstanding call goes on after an await (of loadData or of saveData)
\* leaves the collection as the other calls have made it.
C27_NoLostUpdateInMemory ==
    [][/\ (storeOps' # storeOps
           /\ BagCardinality(storeOps') <= BagCardinality(storeOps))
          => UNCHANGED <<items, nextId>>
       /\ items' # items =>
             \E t \in BagToSet(storeOps') :
                /\ t.pc = "load"
                /\ storeOps' = storeOps (+) SetToBag({t})]_vars

\* A first addItem has handed the collection to saveData; a second addItem
\* was called and has returned; then the first one has returned: the
\* collection holds both items (the document holds the first alone).
C27_Witness ==
    /\ storeOps = EmptyBag
    /\ doneOp.result = "item"
    /\ doneOp.saved = "full"
    /\ Len(items) = 2
    /\ \A i \in DOMAIN items : items[i].status = "pending"
    /\ data.present
    /\ Len(data.items) = 1

\* C30: no lost update in the plugin data document between the store and the
\* settings: when a save() of the store and a saveSettings() have completed
\* and no call is outstanding, the document's triage queue is the collection
\* in memory and the document's settings are the current settings.
C30_NoLostUpdateInDocument ==
    (/\ storeOps = EmptyBag
     /\ settingsOps = EmptyBag
     /\ doneOp.saved = "full"
     /\ pluginLog.settingsSaved > 0
     /\ pluginLog.restarts = 0)
    => /\ data.present
       /\ data.items = items
       /\ data.value = settings.value

C32_InformationalFiltered ==
    [][LET files == {t \in BagToSet(triaging) :
                       /\ t.pc = "classify"
                       /\ CopiesIn(t, triaging') < CopiesIn(t, triaging)}
           convs == {t \in BagToSet(convTriaging) :
                       /\ t.pc = "classify"
                       /\ CopiesIn(t, convTriaging') < CopiesIn(t, convTriaging)}
           classified == {t.file : t \in files}
                         \cup {buffers[t.buf].files[1] : t \in convs}
       IN (lastParse'.response.kind = "response"
           /\ lastParse'.response.json /\ lastParse'.response.valid)
          => \A p \in classified :
                IF lastParse'.response.category = "INFORMATIONAL"
                THEN items' = items
                ELSE /\ Len(items') = Len(items) + 1
                     /\ SubSeq(items', 1, Len(items)) = items
                     /\ items'[Len(items')].filePath = p
                     /\ items'[Len(items')].status = "pending"
                     /\ items'[Len(items')].suggestion.category =
                           lastParse'.response.category]_vars

\* A conversation of two messages was classified as SYSTEM_ISSUE and its item
\* is the only one, under the path of the first message.
C32_Witness ==
    /\ lastParse.response.category = "SYSTEM_ISSUE"
    /\ lastParse.response.valid
    /\ Len(items) = 1
    /\ items[1].filePath = Teams1
    /\ items[1].suggestion.category = "SYSTEM_ISSUE"
    /\ Len(buffers) = 1
    /\ Len(buffers[1].files) = 2

\* C33: debouncing is per path.  A vault event is an event on some path p
\* such that every other path keeps its map entry, its live timeout and the
\* time of its own last event; when the event is accepted, p's only live
\* timeout afterwards is the one this call set (the last call wins); and
\* every settled signal comes the debounce delay after the last event of
\* its own path.
C33_DebouncePerPath ==
    [][/\ nEvents' # nEvents =>
             \E p \in Paths :
                /\ \A q \in Paths \ {p} :
                      /\ debounceTimers'[q] = debounceTimers[q]
                      /\ {t \in timers' : t.path = q} = {t \in timers : t.path = q}
                      /\ pending'[q] = pending[q]
                /\ (isWatching /\ isWatchedFile(p)) =>
                      /\ debounceTimers'[p] = now + DebounceDelay
                      /\ {t \in timers' : t.path = p} =
                            {[path |-> p, due |-> now + DebounceDelay]}
                      /\ pending'[p].since = now
       /\ lastSettled' # lastSettled =>
             lastSettled'.at = lastSettled'.since + DebounceDelay]_vars

\* The settled signal of one path has fired the delay after that path's
\* last event, although an event on another path arrived while its timeout
\* was live; the timeout of the other path is still live, due the delay
\* after its own event.
C33_Witness ==
    /\ lastSettled # NoSettle
    /\ lastSettled.at = lastSettled.since + DebounceDelay
    /\ \E p \in Paths \ {lastSettled.path} :
          /\ pending[p].since > lastSettled.since
          /\ pending[p].since < lastSettled.at
          /\ debounceTimers[p] = pending[p].since + DebounceDelay
          /\ \E t \in timers : t.path = p

\* C34: the in-flight counter is exact.  In every reachable state
\* activeTriages is the number of triageFile calls that processQueue has
\* started and that have not yet settled; it is never negative; and it is 0
\* whenever none is outstanding, whether the calls that ended succeeded or
\* failed.
C34_InFlightCounterExact ==
    /\ activeTriages = BagCardinality(triaging)
    /\ activeTriages >= 0
    /\ triaging = EmptyBag => activeTriages = 0

\* Two files have been started and both calls have settled, one of them
\* after a failure, and the counter is back at 0.
C34_Witness ==
    /\ Len(startLog) >= 2
    /\ triaging = EmptyBag
    /\ failedUnits # {}
    /\ Cardinality(failedUnits) < Len(startLog)
    /\ activeTriages = 0

\* C35: at most one manual scan runs at a time.  An executeScan call made
\* while a scan is in progress is rejected, appends nothing to the dispatch
\* queue and leaves the running scan as it was; the flag isScanInProgress()
\* returns is set exactly while an executeScan call is inside previewScan;
\* and it is false after every step that ends a scan, by a return (also of
\* an aborted scan) or by an exception.
C35_OneScanAtATime ==
    [][/\ scanLog'.rejected > scanLog.rejected =>
             /\ isScanning
             /\ fileQueue' = fileQueue
             /\ enqLog' = enqLog
             /\ scan' = scan
             /\ isScanning'
       /\ isScanning' <=> scan' # NoScan
       /\ (scan # NoScan /\ scan' = NoScan) => ~isScanning'
       /\ (scanLog'.returned # scanLog.returned
            \/ scanLog'.failed # scanLog.failed) => ~isScanning']_vars

\* An executeScan call was rejected while a scan was in progress, that scan
\* has ended with an exception, and no scan is in progress.
C35_Witness ==
    /\ scanLog.rejected = 1
    /\ scanLog.failed = 1
    /\ scanLog.calls = 2
    /\ ~isScanning
    /\ scan = NoScan
    /\ enqLog = <<>>

\* C36: store operations on an unknown id have no effect: a step that is an
\* updateItem, markReviewed or dismissItem call with an id no item has
\* returns null, and such a removeItem call returns false; the collection is
\* unchanged, no save is started, the persisted document is unchanged and no
\* listener is invoked.
C36_UnknownIdNoEffect ==
    [][\A id \in SavedIds :
          LET updates == \/ UpdateItemCall(id, NoUpdates)
                         \/ MarkReviewedCall(id, "created_task", Undefined)
                         \/ DismissItemCall(id)
              removes == RemoveItemCall(id)
          IN findIndex(id) = 0 =>
                /\ updates => doneOp'.result = "null"
                /\ removes => doneOp'.result = "false"
                /\ (updates \/ removes) =>
                      /\ doneOp'.saved = "none"
                      /\ doneOp'.notified = "none"
                      /\ items' = items
                      /\ nextId' = nextId
                      /\ data' = data
                      /\ storeOps' = storeOps
                      /\ listeners' = listeners]_vars

\* removeItem has returned false for an id that no item of a non-empty,
\* persisted collection has, with two listeners registered and no save
\* outstanding.
C36_Witness ==
    /\ doneOp = doneUnchanged("false")
    /\ Len(items) = 1
    /\ \E id \in SavedIds : findIndex(id) = 0
    /\ data.present
    /\ data.items = items
    /\ Len(listeners) = 2
    /\ storeOps = EmptyBag

\* C37: the pending queries are read-only and agree with each other.  In
\* every reachable state getPendingItems() is the pending items in the order
\* of the collection, getPendingCount() is its length, and hasFilePath(p) is
\* true exactly when one of them has source path p, so items that are
\* reviewed or dismissed do not count; and a step that is one of the three
\* calls returns that value, changes neither the collection nor the persisted
\* document, starts no save and invokes no listener.
C37_PendingQueriesAgree ==
    /\ [](/\ getPendingCount = Len(getPendingItems)
          /\ getPendingCount =
                Cardinality({i \in DOMAIN items : items[i].status = "pending"})
          /\ \A i \in DOMAIN getPendingItems :
                /\ getPendingItems[i].status = "pending"
                /\ \E j \in DOMAIN items : items[j] = getPendingItems[i]
          /\ \A p \in Paths :
                hasFilePath(p) <=>
                   \E i \in DOMAIN getPendingItems : getPendingItems[i].filePath = p)
    /\ [][(/\ doneOp'.result \in {"getPendingItems", "getPendingCount", "hasFilePath"}
            /\ doneOp' # doneOp) =>
             /\ items' = items
             /\ nextId' = nextId
             /\ data' = data
             /\ storeOps' = storeOps
             /\ listeners' = listeners
             /\ doneOp'.saved = "none"
             /\ doneOp'.notified = "none"
             /\ doneOp'.result = "getPendingItems" =>
                   doneOp'.returned.items = getPendingItems
             /\ doneOp'.result = "getPendingCount" =>
                   doneOp'.returned.count = Len(getPendingItems)
             /\ doneOp'.result = "hasFilePath" =>
                   doneOp'.returned.has =
                      (PendingFor(items, doneOp'.returned.path) > 0)]_vars

\* hasFilePath has returned false for a collection whose two items have the
\* same path, one reviewed and one dismissed, with a listener registered and
\* the collection persisted.
C37_Witness ==
    /\ doneOp.result = "hasFilePath"
    /\ ~doneOp.returned.has
    /\ Len(items) = 2
    /\ items[1].filePath = items[2].filePath
    /\ {items[1].status, items[2].status} = {"reviewed", "dismissed"}
    /\ getPendingCount = 0
    /\ listeners # <<>>
    /\ data.items = items
    /\ storeOps = EmptyBag

\* C16 as stated: every store call that changes the collection persists the
\* full collection and then invokes every registered listener exactly once.
C16_PersistsAndNotifies ==
    doneOp.saved # "none" => (doneOp.saved = "full" /\ doneOp.notified = "all")

\* C16, amended: every store call that changes the collection goes through
\* save() and notifyListeners(); unless loadData or saveData fails (the error
\* is logged), the entry it persists is the full collection; and in either
\* case every registered listener is then invoked exactly once.
C16_PersistsUnlessFailedAndNotifies ==
    /\ [](doneOp.saved # "none" =>
             (doneOp.saved \in {"full", "failed"} /\ doneOp.notified = "all"))
    /\ [][items' # items =>
             BagCardinality(storeOps') = BagCardinality(storeOps) + 1]_vars

\* A call on a collection of two items, one of them reviewed, has persisted
\* both items and notified both registered listeners.
C16_Witness ==
    /\ doneOp.saved = "full"
    /\ doneOp.notified = "all"
    /\ Len(listeners) = 2
    /\ Len(items) = 2
    /\ \E i \in DOMAIN items : items[i].status = "reviewed"
    /\ data.present
    /\ data.items = items
    /\ storeOps = EmptyBag

\* C17: a listener that throws does not break notification: every other
\* registered listener is still invoked, and the call returns its normal
\* result.
C17_ThrowingListenerIsolated ==
    (doneOp.saved # "none" /\ doneOp.threw) =>
        (doneOp.notified = "all" /\ doneOp.result # "rejected")

\* A call has notified a listener that throws and then one that returns.
C17_Witness ==
    /\ doneOp.threw
    /\ doneOp.notified = "all"
    /\ doneOp.result = "item"
    /\ listeners = <<"faulty", "render">>
    /\ storeOps = EmptyBag

\* C18: a persistence failure during a store call is not propagated to the
\* caller (the call returns its normal result) and leaves the collection in
\* memory well formed.
C18_PersistenceFailureContained ==
    /\ doneOp.saved = "failed" => doneOp.result # "rejected"
    /\ \A i \in DOMAIN items :
          /\ items[i].status \in Statuses
          /\ items[i].filePath # NoPath
          /\ items[i].suggestion # NullSuggestion
          /\ items[i].id \in 1..(nextId - 1)
    /\ \A i, j \in DOMAIN items : items[i].id = items[j].id => i = j

\* A call on a collection of two items has returned after its save failed.
C18_Witness ==
    /\ doneOp.saved = "failed"
    /\ doneOp.result = "item"
    /\ Len(items) = 2

====
